---- MODULE Spec2Model ----
(***************************************************************************)
(* A model of the watchman event pipeline (internal/watcher/watchman.go):  *)
(* the capture task parsing the fanotify byte stream, the bounded event    *)
(* queue, the process task (handle resolution with the handle cache, the   *)
(* prefix filter, the path dedup cache, the fan-out to listeners), the     *)
(* listener registry and the one-shot Stop.                                *)
(*                                                                         *)
(* Go strings and byte slices are sequences of byte values (0..255).       *)
(* A 64-bit mask is the set of its set bit positions (0..63), so no        *)
(* arithmetic on it can overflow.                                          *)
(***************************************************************************)
EXTENDS Integers, Sequences, FiniteSets, TLC

\* ------------------------------------------------------------------ bounds

\* Capacity of eventChan in the model (4096 in the code).
ChanCap == 2
\* Full records per read buffer (before an optional truncated tail).
MaxRecs == 2
\* Events per buffer in the cache scenarios.
MaxEvents == 3
\* The clock stops ticking here.
MaxTime == 3
\* cache.fd-size, cache.fp-size, cache.fd-ttl, cache.fp-ttl of the settings
\* (any value >= 1 is valid), in entries and in clock ticks.
FdSize == 1
FpSize == 1
FdTtl == 2
FpTtl == 1

\* ----------------------------------------------------- program constants

EventMetadataLen == 24
EventInfoFidLen == 12
FileHandleLen == 8
FANOTIFY_METADATA_VERSION == 3
FAN_EVENT_INFO_TYPE_DFID_NAME == 2
\* The path separator '/' and the NUL that ends a child name.
Slash == 47
Nul == 0
Dot == 46

\* Masks of golang.org/x/sys/unix, as sets of bit positions.
FAN_CLOSE_WRITE == {3}
FAN_MOVED_TO == {7}
FAN_CREATE == {8}
FAN_DELETE == {9}
FAN_DELETE_SELF == {10}
FAN_Q_OVERFLOW == {14}
FAN_ONDIR == {30}

\* ------------------------------------------------------------ byte helpers

Drop(s, n) == SubSeq(s, n + 1, Len(s))
Take(s, n) == SubSeq(s, 1, n)

\* binary.LittleEndian.Uint32 of a 4-byte slice.
Uint32(b) == b[1] + 256 * b[2] + 65536 * b[3] + 16777216 * b[4]

\* binary.LittleEndian.Uint64 of an 8-byte slice, as the set of set bits.
Uint64Bits(b) ==
  { 8 * (i - 1) + k : i \in 1..8, k \in 0..7 } \cap
  { n \in 0..63 : (b[(n \div 8) + 1] \div (2 ^ (n % 8))) % 2 = 1 }

\* The little-endian encodings the kernel writes.
LE16(n) == << n % 256, (n \div 256) % 256 >>
LE32(n) == << n % 256, (n \div 256) % 256, (n \div 65536) % 256, (n \div 16777216) % 256 >>
MaskByte(mask, i) ==
  LET b(k) == IF (8 * i + k) \in mask THEN 2 ^ k ELSE 0
  IN b(0) + b(1) + b(2) + b(3) + b(4) + b(5) + b(6) + b(7)
LE64Bits(mask) == [ i \in 1..8 |-> MaskByte(mask, i - 1) ]

Zeros(n) == [ i \in 1..n |-> 0 ]

\* bytes.IndexByte(s, c): the 0-based index of the first c, -1 when absent.
IndexByte(s, c) ==
  IF \E i \in 1..Len(s) : s[i] = c
  THEN (CHOOSE i \in 1..Len(s) : s[i] = c /\ \A j \in 1..(i - 1) : s[j] # c) - 1
  ELSE -1

\* strings.HasPrefix.
HasPrefix(s, p) == Len(p) <= Len(s) /\ Take(s, Len(p)) = p

\* base64.StdEncoding.EncodeToString, as the sequence of alphabet indices
\* (0..63) with 64 for the padding '='.
RECURSIVE Base64(_)
Base64(bs) ==
  IF Len(bs) = 0 THEN << >>
  ELSE IF Len(bs) = 1 THEN
    LET v == bs[1] * 16 IN << (v \div 64) % 64, v % 64, 64, 64 >>
  ELSE IF Len(bs) = 2 THEN
    LET v == (bs[1] * 256 + bs[2]) * 4
    IN << (v \div 4096) % 64, (v \div 64) % 64, v % 64, 64 >>
  ELSE
    LET v == bs[1] * 65536 + bs[2] * 256 + bs[3]
    IN << v \div 262144, (v \div 4096) % 64, (v \div 64) % 64, v % 64 >>
       \o Base64(Drop(bs, 3))

\* ------------------------------------------------------------------- paths

\* The elements of a path between separators (strings.Split on '/').
RECURSIVE Split(_)
Split(p) ==
  LET i == IndexByte(p, Slash)
  IN IF i < 0 THEN << p >> ELSE << Take(p, i) >> \o Split(Drop(p, i + 1))

RECURSIVE JoinElems(_)
JoinElems(es) ==
  IF Len(es) = 0 THEN << >>
  ELSE IF Len(es) = 1 THEN es[1]
  ELSE es[1] \o << Slash >> \o JoinElems(Tail(es))

\* filepath.Clean: the loop over the elements, out being the elements kept
\* so far and dotdot the number of leading ".." elements that cannot be
\* backtracked over.
RECURSIVE CleanElems(_, _, _, _)
CleanElems(es, rooted, out, dotdot) ==
  IF Len(es) = 0 THEN out
  ELSE
    LET e == es[1]
        rest == Tail(es)
    IN IF e = << >> \/ e = << Dot >> THEN CleanElems(rest, rooted, out, dotdot)
       ELSE IF e = << Dot, Dot >> THEN
         IF Len(out) > dotdot
         THEN CleanElems(rest, rooted, Take(out, Len(out) - 1), dotdot)
         ELSE IF ~rooted
         THEN CleanElems(rest, rooted, Append(out, e), Len(out) + 1)
         ELSE CleanElems(rest, rooted, out, dotdot)
       ELSE CleanElems(rest, rooted, Append(out, e), dotdot)

CleanOut(rooted, out) ==
  IF rooted THEN << Slash >> \o JoinElems(out)
  ELSE IF out = << >> THEN << Dot >> ELSE JoinElems(out)

Clean(p) ==
  IF p = << >> THEN << Dot >>
  ELSE CleanOut(p[1] = Slash, CleanElems(Split(p), p[1] = Slash, << >>, 0))

\* filepath.Join(directory, filename): the non-empty elements joined with
\* '/' and cleaned.
Join(dir, name) ==
  IF dir = << >> /\ name = << >> THEN << >>
  ELSE IF dir = << >> THEN Clean(name)
  ELSE IF name = << >> THEN Clean(dir)
  ELSE Clean(dir \o << Slash >> \o name)

\* settings.normalizePaths, for one path.
RECURSIVE StripSlashes(_)
StripSlashes(p) ==
  IF Len(p) > 1 /\ p[Len(p)] = Slash THEN StripSlashes(Take(p, Len(p) - 1)) ELSE p

normalizePaths(p) == StripSlashes(Clean(p))

\* ---------------------------------------------- the kernel's event records

\* A record as the kernel (or a synthetic buffer) lays it out: the declared
\* event_len, the metadata_version, the mask, the info payload, and how many
\* of the record's bytes are in the read buffer (fewer than its size when the
\* buffer ends inside it).
RecordBytes(r) ==
  Take(LE32(r.len) \o << r.ver, 0 >> \o LE16(EventMetadataLen) \o LE64Bits(r.mask)
         \o << 255, 255, 255, 255 >> \o LE32(0) \o r.info,
       r.present)

RECURSIVE BufferBytes(_)
BufferBytes(recs) ==
  IF Len(recs) = 0 THEN << >> ELSE RecordBytes(recs[1]) \o BufferBytes(Tail(recs))

\* The info payload: info-FID header, file_handle header, handle body and
\* the NUL-terminated child name.
InfoPayload(infoType, handleType, body, name) ==
  << infoType, 0 >> \o LE16(EventInfoFidLen + FileHandleLen + Len(body) + Len(name) + 1)
    \o Zeros(8) \o LE32(Len(body)) \o LE32(handleType) \o body \o name \o << Nul >>

\* A record whose event_len is its real size and that is wholly in the buffer.
FullRecord(ver, mask, info) ==
  [ len |-> EventMetadataLen + Len(info), ver |-> ver, mask |-> mask, info |-> info,
    present |-> EventMetadataLen + Len(info) ]

\* --------------------------------------------------- captureEvents: parsing

\* The Event offered for a record with this mask and info payload: the
\* payload is copied when it can hold the two headers, else Handle is nil.
EventOf(mask, eventData) ==
  [ Mask |-> mask,
    IsDir |-> mask \cap FAN_ONDIR # {},
    Handle |-> IF Len(eventData) >= EventInfoFidLen + FileHandleLen THEN eventData ELSE << >> ]

\* The body of the parse loop for a record with this event_len,
\* metadata_version and mask.
ParseHeader(data, eventLen, version, mask) ==
  IF eventLen > Len(data) \/ eventLen = 0 THEN [ kind |-> "break" ]
  ELSE IF version # FANOTIFY_METADATA_VERSION THEN [ kind |-> "skip", eventLen |-> eventLen ]
  ELSE IF mask \cap FAN_Q_OVERFLOW # {} THEN [ kind |-> "skip", eventLen |-> eventLen ]
  ELSE IF eventLen < EventMetadataLen THEN [ kind |-> "panic" ]
  ELSE [ kind |-> "emit", eventLen |-> eventLen,
         event |-> EventOf(mask, SubSeq(data, EventMetadataLen + 1, eventLen)) ]

\* Mutants of ParseRecord: the version is not checked; a record longer than
\* the rest of the buffer is parsed with the bytes there are; the mask is
\* read from offset 0 instead of 8.
ParseRecordNoVersionCheck(data) ==
  IF Len(data) < EventMetadataLen THEN [ kind |-> "end" ]
  ELSE ParseHeader(data, Uint32(SubSeq(data, 1, 4)), FANOTIFY_METADATA_VERSION,
                   Uint64Bits(SubSeq(data, 9, 16)))

ParseRecordNoLengthCheck(data) ==
  IF Len(data) < EventMetadataLen THEN [ kind |-> "end" ]
  ELSE ParseHeader(data,
                   IF Uint32(SubSeq(data, 1, 4)) > Len(data) THEN Len(data)
                   ELSE Uint32(SubSeq(data, 1, 4)),
                   data[5], Uint64Bits(SubSeq(data, 9, 16)))

ParseRecordMaskAtOffset0(data) ==
  IF Len(data) < EventMetadataLen THEN [ kind |-> "end" ]
  ELSE ParseHeader(data, Uint32(SubSeq(data, 1, 4)), data[5], Uint64Bits(SubSeq(data, 1, 8)))

\* A mutant of ParseRecord: an overflow record stops the parsing of the buffer.
ParseRecordOverflowStops(data) ==
  IF Len(data) < EventMetadataLen THEN [ kind |-> "end" ]
  ELSE IF data[5] = FANOTIFY_METADATA_VERSION
          /\ Uint64Bits(SubSeq(data, 9, 16)) \cap FAN_Q_OVERFLOW # {}
  THEN [ kind |-> "break" ]
  ELSE ParseHeader(data, Uint32(SubSeq(data, 1, 4)), data[5], Uint64Bits(SubSeq(data, 9, 16)))

\* One iteration of the parse loop on the unparsed rest of the buffer, up to
\* the select that offers the event: the loop ends ("end"), stops at a record
\* ("break"), skips one ("skip"), faults on the slice data[24:eventLen]
\* ("panic"), or has an event to offer ("emit").
ParseRecord(data) ==
  IF Len(data) < EventMetadataLen THEN [ kind |-> "end" ]
  ELSE ParseHeader(data, Uint32(SubSeq(data, 1, 4)), data[5], Uint64Bits(SubSeq(data, 9, 16)))

\* The whole parse loop on a buffer, with no cancellation: the events it
\* offers in order, and whether it faults.
RECURSIVE ParseAll(_)
ParseRest(data, r) ==
  IF r.kind \in { "end", "break" } THEN [ events |-> << >>, panic |-> FALSE ]
  ELSE IF r.kind = "panic" THEN [ events |-> << >>, panic |-> TRUE ]
  ELSE IF r.kind = "skip" THEN ParseAll(Drop(data, r.eventLen))
  ELSE [ events |-> << r.event >> \o ParseAll(Drop(data, r.eventLen)).events,
         panic |-> ParseAll(Drop(data, r.eventLen)).panic ]

ParseAll(data) == ParseRest(data, ParseRecord(data))

\* ------------------------------------------------------------ maskToString

HexDigits == << "0", "1", "2", "3", "4", "5", "6", "7", "8", "9", "a", "b", "c", "d", "e", "f" >>

Nibble(mask, i) ==
  LET b(k) == IF (4 * i + k) \in mask THEN 2 ^ k ELSE 0
  IN b(0) + b(1) + b(2) + b(3)

\* The %x of fmt.Sprintf: the hexadecimal digits from the highest non-zero
\* nibble down; a single 0 for the zero mask.
RECURSIVE HexFrom(_, _)
HexFrom(mask, i) ==
  HexDigits[Nibble(mask, i) + 1] \o (IF i = 0 THEN "" ELSE HexFrom(mask, i - 1))

Hex(mask) ==
  LET top == IF mask = {} THEN 0
             ELSE (CHOOSE n \in mask : \A m \in mask : m <= n) \div 4
  IN HexFrom(mask, top)

RECURSIVE JoinPipe(_)
JoinPipe(names) ==
  IF Len(names) = 0 THEN ""
  ELSE IF Len(names) = 1 THEN names[1]
  ELSE names[1] \o "|" \o JoinPipe(Tail(names))

\* A mutant of maskToString: the names come in the order of their bits.
maskToStringBitOrder(mask) ==
  LET events ==
        (IF mask \cap FAN_CLOSE_WRITE # {} THEN << "CLOSE_WRITE" >> ELSE << >>)
        \o (IF mask \cap FAN_MOVED_TO # {} THEN << "MOVED_TO" >> ELSE << >>)
        \o (IF mask \cap FAN_CREATE # {} THEN << "CREATE" >> ELSE << >>)
        \o (IF mask \cap FAN_DELETE # {} THEN << "DELETE" >> ELSE << >>)
        \o (IF mask \cap FAN_DELETE_SELF # {} THEN << "DELETE_SELF" >> ELSE << >>)
  IN IF Len(events) = 0 THEN "0x" \o Hex(mask) ELSE JoinPipe(events)

maskToString(mask) ==
  LET events ==
        (IF mask \cap FAN_CREATE # {} THEN << "CREATE" >> ELSE << >>)
        \o (IF mask \cap FAN_DELETE # {} THEN << "DELETE" >> ELSE << >>)
        \o (IF mask \cap FAN_DELETE_SELF # {} THEN << "DELETE_SELF" >> ELSE << >>)
        \o (IF mask \cap FAN_CLOSE_WRITE # {} THEN << "CLOSE_WRITE" >> ELSE << >>)
        \o (IF mask \cap FAN_MOVED_TO # {} THEN << "MOVED_TO" >> ELSE << >>)
  IN IF Len(events) = 0 THEN "0x" \o Hex(mask) ELSE JoinPipe(events)

\* ------------------------------------------- the expirable LRU (fdc and fpc)

\* A cache is the eviction list, most recently used first, of entries
\* [key, value, expiresAt].
RemoveAt(c, i) == Take(c, i - 1) \o Drop(c, i)

LruIndex(c, key) ==
  IF \E i \in 1..Len(c) : c[i].key = key
  THEN CHOOSE i \in 1..Len(c) : c[i].key = key
  ELSE 0

Miss(c) == [ ok |-> FALSE, value |-> << >>, lru |-> c ]

LruGetAt(c, i, t) ==
  IF i = 0 THEN Miss(c)
  ELSE IF t > c[i].expiresAt THEN Miss(c)
  ELSE [ ok |-> TRUE, value |-> c[i].value, lru |-> << c[i] >> \o RemoveAt(c, i) ]

\* lru.Get: a miss when the key is absent or its entry has expired
\* (time.Now().After(ExpiresAt)); a hit moves the entry to the front.
LruGet(c, key, t) == LruGetAt(c, LruIndex(c, key), t)

LruAddAt(c, i, ent, size) ==
  IF i # 0 THEN << ent >> \o RemoveAt(c, i)
  ELSE IF Len(c) + 1 > size THEN Take(<< ent >> \o c, Len(c))
  ELSE << ent >> \o c

\* lru.Add: an existing entry is renewed and moved to the front; a new one is
\* pushed to the front and the oldest entry evicted when the size is exceeded.
LruAdd(c, key, value, t, ttl, size) ==
  LruAddAt(c, LruIndex(c, key), [ key |-> key, value |-> value, expiresAt |-> t + ttl ], size)

\* The cache's own sweeper goroutine: expired entries are deleted.
RECURSIVE LruSweep(_, _)
LruSweep(c, t) ==
  IF Len(c) = 0 THEN << >>
  ELSE (IF t > c[1].expiresAt THEN << >> ELSE << c[1] >>) \o LruSweep(Tail(c), t)

\* ------------------------------------------------------------------ resolve

\* What open-by-handle-at and readlink answer: the directory a handle body
\* names on this filesystem. Handle bodies 1, 2 and 3 name /a, /ab and /;
\* any other handle is stale.
DirA == << Slash, 97 >>
DirAb == << Slash, 97, 98 >>
DirRoot == << Slash >>
HandleType == 1
Directories == ( << 1 >> :> DirA ) @@ ( << 2 >> :> DirAb ) @@ ( << 3 >> :> DirRoot )

OpenByHandleAt(rfdOpen, handleType, handleRaw) ==
  rfdOpen /\ handleType = HandleType /\ handleRaw \in DOMAIN Directories

Unresolved(cache, invoked, key) ==
  [ ok |-> FALSE, directory |-> << >>, filename |-> << >>, fdc |-> cache,
    invoked |-> invoked, key |-> key ]

\* Lines 290-307: the child name after the handle body, up to the first NUL.
ChildName(rest) ==
  IF IndexByte(rest, Nul) >= 0 THEN Take(rest, IndexByte(rest, Nul)) ELSE rest

Resolved(infoType, handleData, nameOffset, basePath, cache, invoked, key) ==
  [ ok |-> TRUE, directory |-> basePath,
    filename |-> IF /\ infoType = FAN_EVENT_INFO_TYPE_DFID_NAME
                    /\ Len(handleData) > nameOffset
                    /\ ChildName(Drop(handleData, nameOffset)) # << >>
                    /\ basePath # << >>
                 THEN ChildName(Drop(handleData, nameOffset)) ELSE << >>,
    fdc |-> cache, invoked |-> invoked, key |-> key ]

\* Lines 274-288: the handle cache lookup (got), and on a miss the resolver
\* and the insertion of its answer.
resolveCached(infoType, handleData, handleBytes, handleType, handleRaw, cacheKey, got, cache, rfdOpen, t) ==
  IF got.ok
  THEN Resolved(infoType, handleData, FileHandleLen + handleBytes, got.value, got.lru,
                FALSE, cacheKey)
  ELSE IF ~OpenByHandleAt(rfdOpen, handleType, handleRaw)
  THEN Unresolved(cache, TRUE, cacheKey)
  ELSE Resolved(infoType, handleData, FileHandleLen + handleBytes, Directories[handleRaw],
                LruAdd(cache, cacheKey, Directories[handleRaw], t, FdTtl, FdSize),
                TRUE, cacheKey)

\* Lines 264-272: the file_handle header, the handle body and the cache key.
resolveHandle(infoType, handleData, handleBytes, handleType, cache, rfdOpen, t, useCache) ==
  IF handleBytes > Len(handleData) - FileHandleLen THEN Unresolved(cache, FALSE, << >>)
  ELSE resolveCached(infoType, handleData, handleBytes, handleType,
                     SubSeq(handleData, FileHandleLen + 1, FileHandleLen + handleBytes),
                     Base64(SubSeq(handleData, FileHandleLen + 1, FileHandleLen + handleBytes)),
                     IF useCache
                     THEN LruGet(cache,
                                 Base64(SubSeq(handleData, FileHandleLen + 1,
                                               FileHandleLen + handleBytes)), t)
                     ELSE Miss(cache),
                     cache, rfdOpen, t)

resolveInfo(infoType, handleData, cache, rfdOpen, t, useCache) ==
  IF Len(handleData) < FileHandleLen THEN Unresolved(cache, FALSE, << >>)
  ELSE resolveHandle(infoType, handleData, Uint32(SubSeq(handleData, 1, 4)),
                     Uint32(SubSeq(handleData, 5, 8)), cache, rfdOpen, t, useCache)

\* A mutant of resolve: the handle cache is never consulted.
resolveNoCache(data, cache, rfdOpen, t) ==
  IF Len(data) < EventInfoFidLen THEN Unresolved(cache, FALSE, << >>)
  ELSE resolveInfo(data[1], Drop(data, EventInfoFidLen), cache, rfdOpen, t, FALSE)

\* resolve(event.Handle): (directory, filename, ok), with the handle cache
\* after it, whether the resolver (open-by-handle-at plus readlink) was
\* invoked, and the cache key.
resolve(data, cache, rfdOpen, t) ==
  IF Len(data) < EventInfoFidLen THEN Unresolved(cache, FALSE, << >>)
  ELSE resolveInfo(data[1], Drop(data, EventInfoFidLen), cache, rfdOpen, t, TRUE)

\* ------------------------------------------------------------ prefix filter

\* watchman.watcher.paths as configured, and the radix tree's keys:
\* settings.Load normalizes them and Initialize inserts each.
ConfiguredPaths == { << Slash, 97, Slash >>, << Slash, 99, Slash, Dot, Slash, 100 >> }
filter == { normalizePaths(p) : p \in ConfiguredPaths }

\* radix.Tree.LongestPrefix(s): matched when an inserted key is a prefix of s.
LongestPrefix(keys, s) == \E k \in keys : HasPrefix(s, k)

\* ------------------------------------------- processEvents: one event's fate

Fate(r, fullPath, eventType, isDir, cache, outcome) ==
  [ fdc |-> r.fdc, fpc |-> cache, invoked |-> r.invoked, resolved |-> r.ok, key |-> r.key,
    directory |-> r.directory, filename |-> r.filename, fullPath |-> fullPath,
    eventType |-> eventType, isDir |-> isDir, outcome |-> outcome ]

\* A mutant of dedup: the is-directory flag is not looked at.
dedupIgnoringIsDir(event, r, fullPath, eventType, dedupKey, seen, matched, fpcache, t) ==
  IF ~matched THEN Fate(r, fullPath, eventType, event.IsDir, fpcache, "unmatched")
  ELSE IF seen.ok THEN Fate(r, fullPath, eventType, event.IsDir, seen.lru, "duplicate")
  ELSE Fate(r, fullPath, eventType, event.IsDir,
            LruAdd(fpcache, dedupKey, eventType, t, FpTtl, FpSize), "deliver")

\* A mutant of dedup: a dedup hit stores the new event's kind for the path.
dedupStoringOnHit(event, r, fullPath, eventType, dedupKey, seen, matched, fpcache, t) ==
  IF event.IsDir THEN Fate(r, fullPath, eventType, TRUE, fpcache, "directory")
  ELSE IF ~matched THEN Fate(r, fullPath, eventType, FALSE, fpcache, "unmatched")
  ELSE IF seen.ok
  THEN Fate(r, fullPath, eventType, FALSE,
            LruAdd(fpcache, dedupKey, eventType, t, FpTtl, FpSize), "duplicate")
  ELSE Fate(r, fullPath, eventType, FALSE,
            LruAdd(fpcache, dedupKey, eventType, t, FpTtl, FpSize), "deliver")

\* Lines 224-238 for a resolved event with its joined path, its kind, the key
\* of the dedup lookup and the lookup's answer.
dedup(event, r, fullPath, eventType, dedupKey, seen, matched, fpcache, t) ==
  IF event.IsDir THEN Fate(r, fullPath, eventType, TRUE, fpcache, "directory")
  ELSE IF ~matched THEN Fate(r, fullPath, eventType, FALSE, fpcache, "unmatched")
  ELSE IF seen.ok THEN Fate(r, fullPath, eventType, FALSE, seen.lru, "duplicate")
  ELSE Fate(r, fullPath, eventType, FALSE,
            LruAdd(fpcache, dedupKey, eventType, t, FpTtl, FpSize), "deliver")

\* Lines 219-223 and on, for the answer r of resolve.
processResolved(event, r, fullPath, eventType, fpcache, t) ==
  IF ~r.ok THEN Fate(r, << >>, eventType, event.IsDir, fpcache, "unresolved")
  ELSE IF r.directory = << >> \/ r.filename = << >>
  THEN Fate(r, << >>, eventType, event.IsDir, fpcache, "empty")
  ELSE dedup(event, r, fullPath, eventType, fullPath, LruGet(fpcache, fullPath, t),
             LongestPrefix(filter, fullPath), fpcache, t)

processJoined(event, r, fpcache, t) ==
  processResolved(event, r, Join(r.directory, r.filename), maskToString(event.Mask), fpcache, t)

\* Mutants of processEvent: the dedup cache is keyed by (path, kind); the
\* handle cache is not used.
processResolvedKeyedByKind(event, r, fullPath, eventType, fpcache, t) ==
  IF ~r.ok THEN Fate(r, << >>, eventType, event.IsDir, fpcache, "unresolved")
  ELSE IF r.directory = << >> \/ r.filename = << >>
  THEN Fate(r, << >>, eventType, event.IsDir, fpcache, "empty")
  ELSE dedup(event, r, fullPath, eventType, << fullPath, eventType >>,
             LruGet(fpcache, << fullPath, eventType >>, t),
             LongestPrefix(filter, fullPath), fpcache, t)

processEventKeyedByKind(event, fdcache, fpcache, rfdOpen, t) ==
  processResolvedKeyedByKind(event, resolve(event.Handle, fdcache, rfdOpen, t),
                             Join(resolve(event.Handle, fdcache, rfdOpen, t).directory,
                                  resolve(event.Handle, fdcache, rfdOpen, t).filename),
                             maskToString(event.Mask), fpcache, t)

\* What the process stage decides for one dequeued event, in the code's
\* order: resolve, empty directory or filename, join, is-directory, prefix
\* filter, mask to kind, dedup lookup, dedup insert. outcome "deliver" means
\* the listeners are then called.
processEvent(event, fdcache, fpcache, rfdOpen, t) ==
  processJoined(event, resolve(event.Handle, fdcache, rfdOpen, t), fpcache, t)

\* ------------------------------------------------------------------- state

VARIABLES
  mainPc,      \* main: "load" (cmd.Initialize loading plugins), "wait" (wg.Wait),
               \* "deferred" (the deferred Stop), "exit"
  sigPc,       \* the signal goroutine: "wait", "stop" (cancel done, calling Stop), "done"
  extPc,       \* another goroutine that may call Stop: "idle", "stop", "done"
  plugins,     \* wm.plugins, in registration order
  listeners,   \* wm.listeners: name -> callback
  listenerMu,  \* wm.listenerMu: "free", or "read" while the process task holds it
  rebound,     \* history: the names removed, or bound after the pipeline started
  ffd, rfd,    \* the two descriptors: "open" or "closed" (the field is then -1)
  eventChan,   \* the events buffered in wm.eventChan
  chanClosed,  \* close(wm.eventChan) has run
  ctxDone,     \* cancel() has run
  stopOnce,    \* wm.stopOnce: "idle", "running", "done"
  stopPc,      \* per caller of Stop: "none", "enter", "closeFfd", "closeChan",
               \* "closeRfd", "plugins"
  pluginIdx,   \* the index of the range loop over wm.plugins in Stop
  capPc,       \* captureEvents: "off", "loop", "parse", "send", "done", "panic"
  data,        \* the unparsed rest of the read buffer
  procPc,      \* processEvents: "off", "recv", "call", "stop", "edit", "done"
  snapshot,    \* the listeners of the snapshot not yet called for the current event
  current,     \* the event being fanned out
  fdcManager, fpcManager,  \* the handle cache and the path cache
  now,         \* the clock, in ticks
  kernel,      \* the buffers the kernel will deliver to the next reads
  \* History, for stating the properties:
  stopLog,     \* what Stop closed, in order
  calls,       \* per callback, the calls made to it
  nextId,      \* the number of events enqueued so far
  curBuf,      \* the records of the buffer last read
  emitted,     \* the events enqueued from it
  parsed,      \* the parse loop has finished that buffer
  procLog      \* per dequeued event, what the process stage did with it

vars == << mainPc, sigPc, extPc, plugins, listeners, listenerMu, rebound, ffd, rfd, eventChan, chanClosed,
           ctxDone, stopOnce, stopPc, pluginIdx, capPc, data, procPc, snapshot, current,
           fdcManager, fpcManager, now, kernel, stopLog, calls, nextId, curBuf, emitted,
           parsed, procLog >>

mainVars == << mainPc, sigPc, extPc, plugins >>
regVars == << listeners, listenerMu, rebound >>
stopVars == << ffd, rfd, chanClosed, stopOnce, stopPc, pluginIdx, stopLog >>
capVars == << capPc, data, kernel, nextId, curBuf, emitted, parsed >>
procVars == << procPc, snapshot, current, fdcManager, fpcManager, calls, procLog >>

Callers == { "sig", "ext", "proc", "main" }
PluginNames == { "p1", "p2" }

\* A callback is what it does when called: LoggingHandler prints ("log"), a
\* plugin's Handle is the plugin's own ("handle"), "stop" is a listener
\* that calls wm.Stop(), and "edit" is a listener that calls wm.AddListener
\* or wm.RemoveListener.
Callback(n) ==
  IF n = "logging" THEN "log"
  ELSE IF n = "stopper" THEN "stop"
  ELSE IF n = "editor" THEN "edit"
  ELSE "handle"

\* A panic in any goroutine ends the process: nothing runs after it.
crashed == capPc = "panic"

ListenerNames == PluginNames \cup { "logging", "stopper", "editor" }

\* -------------------------------------------------- main and the goroutines

\* loader.loadOne -> wm.RegisterPlugin(handler): the plugin is appended and
\* its Handle bound under its name. The loader registers each .so once.
RegisterPlugin(p) ==
  /\ ~crashed
  /\ mainPc = "load"
  /\ \A i \in 1..Len(plugins) : plugins[i] # p
  /\ plugins' = Append(plugins, p)
  /\ listenerMu = "free"
  /\ listeners' = (p :> Callback(p)) @@ listeners
  /\ UNCHANGED << listenerMu, rebound >>
  /\ UNCHANGED << mainPc, sigPc, extPc, eventChan, ctxDone, now >>
  /\ UNCHANGED << stopVars, capVars, procVars >>

\* wm.AddListener(identify, listener), under the write lock.
AddListener(n) ==
  /\ ~crashed
  /\ listenerMu = "free"
  /\ listeners' = (n :> Callback(n)) @@ listeners
  /\ rebound' = rebound \cup { n }
  /\ UNCHANGED listenerMu
  /\ UNCHANGED << mainVars, eventChan, ctxDone, now, stopVars, capVars, procVars >>

\* wm.RemoveListener(identify), under the write lock.
RemoveListener(n) ==
  /\ ~crashed
  /\ listenerMu = "free"
  /\ n \in DOMAIN listeners
  /\ listeners' = [ m \in DOMAIN listeners \ { n } |-> listeners[m] ]
  /\ rebound' = rebound \cup { n }
  /\ UNCHANGED listenerMu
  /\ UNCHANGED << mainVars, eventChan, ctxDone, now, stopVars, capVars, procVars >>

\* main after cmd.Initialize: AddListener("logging", ...) and wm.Watch, which
\* starts the capture and the process goroutine; main then waits in wg.Wait.
Watch ==
  /\ ~crashed
  /\ mainPc = "load"
  /\ mainPc' = "wait"
  /\ listenerMu = "free"
  /\ listeners' = ("logging" :> Callback("logging")) @@ listeners
  /\ UNCHANGED << listenerMu, rebound >>
  /\ capPc' = "loop"
  /\ procPc' = "recv"
  /\ UNCHANGED << sigPc, extPc, plugins, eventChan, ctxDone, now, stopVars >>
  /\ UNCHANGED << data, kernel, nextId, curBuf, emitted, parsed >>
  /\ UNCHANGED << snapshot, current, fdcManager, fpcManager, calls, procLog >>

\* The signal goroutine of main: a signal arrives, cancel() runs, and the
\* goroutine goes on to call wm.Stop().
SignalHandler ==
  /\ ~crashed
  /\ mainPc \in { "wait", "deferred" }
  /\ sigPc = "wait"
  /\ sigPc' = "stop"
  /\ ctxDone' = TRUE
  /\ stopPc' = [ stopPc EXCEPT !["sig"] = "enter" ]
  /\ UNCHANGED << mainPc, extPc, plugins, regVars, eventChan, now >>
  /\ UNCHANGED << ffd, rfd, chanClosed, stopOnce, pluginIdx, stopLog >>
  /\ UNCHANGED << capVars, procVars >>

\* Any other goroutine calling wm.Stop(), with no cancellation before it.
ExternalStop ==
  /\ ~crashed
  /\ mainPc \in { "wait", "deferred" }
  /\ extPc = "idle"
  /\ extPc' = "stop"
  /\ stopPc' = [ stopPc EXCEPT !["ext"] = "enter" ]
  /\ UNCHANGED << mainPc, sigPc, plugins, regVars, eventChan, ctxDone, now >>
  /\ UNCHANGED << ffd, rfd, chanClosed, stopOnce, pluginIdx, stopLog >>
  /\ UNCHANGED << capVars, procVars >>

\* wg.Wait returns once both goroutines have returned; main's deferred
\* wm.Stop() then runs.
MainWait ==
  /\ ~crashed
  /\ mainPc = "wait"
  /\ capPc = "done" /\ procPc = "done"
  /\ mainPc' = "deferred"
  /\ stopPc' = [ stopPc EXCEPT !["main"] = "enter" ]
  /\ UNCHANGED << sigPc, extPc, plugins, regVars, eventChan, ctxDone, now >>
  /\ UNCHANGED << ffd, rfd, chanClosed, stopOnce, pluginIdx, stopLog >>
  /\ UNCHANGED << capVars, procVars >>

\* -------------------------------------------------------------------- Stop

\* What a caller does once its Stop call has returned.
Returned(c) ==
  /\ mainPc' = IF c = "main" THEN "exit" ELSE mainPc
  /\ sigPc' = IF c = "sig" THEN "done" ELSE sigPc
  /\ extPc' = IF c = "ext" THEN "done" ELSE extPc
  /\ procPc' = IF c = "proc" THEN (IF snapshot = {} THEN "recv" ELSE "call") ELSE procPc

\* A mutant of StopOrder: the channel is closed before the descriptor.
StopOrderChanFirst == << "closeChan", "closeFfd", "closeRfd", "plugins" >>

\* The statements of the body of Stop, in the order of the code.
StopOrder == << "closeFfd", "closeChan", "closeRfd", "plugins" >>

StopAfter(pc) == StopOrder[(CHOOSE i \in 1..Len(StopOrder) : StopOrder[i] = pc) + 1]

\* A mutant of StopEnter: no sync.Once, every caller runs the body.
StopEnterNoOnce(c) ==
  /\ ~crashed
  /\ stopPc[c] = "enter"
  /\ stopOnce' = "running"
  /\ stopPc' = [ stopPc EXCEPT ![c] = StopOrder[1] ]
  /\ UNCHANGED << mainPc, sigPc, extPc, procPc >>
  /\ UNCHANGED << plugins, regVars, eventChan, ctxDone, now, ffd, rfd, chanClosed,
                  pluginIdx, stopLog >>
  /\ UNCHANGED << capVars, snapshot, current, fdcManager, fpcManager, calls, procLog >>

\* stopOnce.Do: the first caller runs the body; a caller arriving while the
\* body runs waits for it to finish; a caller arriving after it returns at
\* once.
StopEnter(c) ==
  /\ ~crashed
  /\ stopPc[c] = "enter"
  /\ \/ /\ stopOnce = "idle"
        /\ stopOnce' = "running"
        /\ stopPc' = [ stopPc EXCEPT ![c] = StopOrder[1] ]
        /\ UNCHANGED << mainPc, sigPc, extPc, procPc >>
     \/ /\ stopOnce = "done"
        /\ stopPc' = [ stopPc EXCEPT ![c] = "none" ]
        /\ Returned(c)
        /\ UNCHANGED stopOnce
  /\ UNCHANGED << plugins, regVars, eventChan, ctxDone, now, ffd, rfd, chanClosed,
                  pluginIdx, stopLog >>
  /\ UNCHANGED << capVars, snapshot, current, fdcManager, fpcManager, calls, procLog >>

StopStep(c, pc) ==
  /\ ~crashed
  /\ stopPc[c] = pc
  /\ stopPc' = [ stopPc EXCEPT ![c] = StopAfter(pc) ]
  /\ stopLog' = Append(stopLog, pc)
  /\ UNCHANGED << mainVars, regVars, eventChan, ctxDone, now, stopOnce, pluginIdx >>
  /\ UNCHANGED << capVars, procVars >>

\* unix.Close(wm.ffd); wm.ffd = -1
StopCloseFfd(c) ==
  /\ StopStep(c, "closeFfd")
  /\ ffd' = "closed"
  /\ UNCHANGED << rfd, chanClosed >>

\* close(wm.eventChan)
StopCloseChan(c) ==
  /\ StopStep(c, "closeChan")
  /\ chanClosed' = TRUE
  /\ UNCHANGED << ffd, rfd >>

\* unix.Close(wm.rfd); wm.rfd = -1
StopCloseRfd(c) ==
  /\ StopStep(c, "closeRfd")
  /\ rfd' = "closed"
  /\ UNCHANGED << ffd, chanClosed >>

\* The range loop over wm.plugins: Close of the next plugin, or the end of
\* the body, after which stopOnce is done and the call returns.
StopClosePlugin(c) ==
  /\ ~crashed
  /\ stopPc[c] = "plugins"
  /\ IF pluginIdx <= Len(plugins)
     THEN /\ stopLog' = Append(stopLog, plugins[pluginIdx])
          /\ pluginIdx' = pluginIdx + 1
          /\ UNCHANGED << stopOnce, stopPc, mainPc, sigPc, extPc, procPc >>
     ELSE /\ stopOnce' = "done"
          /\ stopPc' = [ stopPc EXCEPT ![c] = "none" ]
          /\ Returned(c)
          /\ UNCHANGED << stopLog, pluginIdx >>
  /\ UNCHANGED << plugins, regVars, eventChan, ctxDone, now, ffd, rfd, chanClosed >>
  /\ UNCHANGED << capVars, snapshot, current, fdcManager, fpcManager, calls, procLog >>

Stop(c) ==
  \/ StopEnter(c)
  \/ StopCloseFfd(c)
  \/ StopCloseChan(c)
  \/ StopCloseRfd(c)
  \/ StopClosePlugin(c)

\* ----------------------------------------------------------- captureEvents

\* The top of the loop: return when the context is done; else read. The read
\* fails with EBADF once the descriptor is closed (return), may fail with
\* EINTR (return) or with another error (continue), or delivers the kernel's
\* next buffer.
CaptureRead ==
  /\ ~crashed
  /\ capPc = "loop"
  /\ IF ctxDone \/ ffd = "closed"
     THEN capPc' = "done" /\ UNCHANGED << data, kernel, curBuf, emitted, parsed >>
     ELSE \/ /\ kernel # << >>
             /\ data' = BufferBytes(Head(kernel))
             /\ kernel' = Tail(kernel)
             /\ curBuf' = Head(kernel)
             /\ emitted' = << >>
             /\ parsed' = FALSE
             /\ capPc' = "parse"
          \/ \E err \in { "EINTR", "EAGAIN" } :
               /\ capPc' = IF err = "EINTR" THEN "done" ELSE "loop"
               /\ UNCHANGED << data, kernel, curBuf, emitted, parsed >>
  /\ UNCHANGED << mainVars, regVars, eventChan, ctxDone, now, nextId, stopVars, procVars >>

CaptureParsed(r) ==
  /\ capPc' = CASE r.kind \in { "end", "break" } -> "loop"
                [] r.kind = "skip" -> "parse"
                [] r.kind = "panic" -> "panic"
                [] r.kind = "emit" -> "send"
  /\ data' = IF r.kind = "skip" THEN Drop(data, r.eventLen) ELSE data
  /\ parsed' = (r.kind \in { "end", "break" })

\* One iteration of the parse loop, up to the select that offers the event.
CaptureParse ==
  /\ ~crashed
  /\ capPc = "parse"
  /\ CaptureParsed(ParseRecord(data))
  /\ UNCHANGED << mainVars, regVars, eventChan, ctxDone, now, stopVars, procVars >>
  /\ UNCHANGED << kernel, nextId, curBuf, emitted >>

\* A mutant of CaptureOffer: the event is put at the head of the queue.
CaptureOfferAtHead(r) ==
  \/ /\ ctxDone
     /\ capPc' = "done"
     /\ UNCHANGED << eventChan, data, nextId, emitted >>
  \/ /\ chanClosed
     /\ capPc' = "panic"
     /\ UNCHANGED << eventChan, data, nextId, emitted >>
  \/ /\ ~chanClosed
     /\ Len(eventChan) < ChanCap
     /\ eventChan' = << [ Mask |-> r.event.Mask, IsDir |-> r.event.IsDir,
                          Handle |-> r.event.Handle, id |-> nextId + 1 ] >> \o eventChan
     /\ nextId' = nextId + 1
     /\ emitted' = Append(emitted, r.event)
     /\ data' = Drop(data, r.eventLen)
     /\ capPc' = "parse"

\* The select at lines 194-202, for the parsed record r.
CaptureOffer(r) ==
  \/ /\ ctxDone
     /\ capPc' = "done"
     /\ UNCHANGED << eventChan, data, nextId, emitted >>
  \/ /\ chanClosed
     /\ capPc' = "panic"
     /\ UNCHANGED << eventChan, data, nextId, emitted >>
  \/ /\ ~chanClosed
     /\ Len(eventChan) < ChanCap
     /\ eventChan' = Append(eventChan, [ Mask |-> r.event.Mask, IsDir |-> r.event.IsDir,
                                         Handle |-> r.event.Handle, id |-> nextId + 1 ])
     /\ nextId' = nextId + 1
     /\ emitted' = Append(emitted, r.event)
     /\ data' = Drop(data, r.eventLen)
     /\ capPc' = "parse"

\* The select that offers the event: the context is done (return), or the
\* send proceeds. A send on a closed channel panics; a send on a full one
\* blocks.
CaptureSend ==
  /\ ~crashed
  /\ capPc = "send"
  /\ CaptureOffer(ParseRecord(data))
  /\ UNCHANGED << mainVars, regVars, ctxDone, now, stopVars, procVars >>
  /\ UNCHANGED << kernel, curBuf, parsed >>

\* ----------------------------------------------------------- processEvents

\* A mutant of ProcessEvent: the read lock of the registry is still held when
\* the callbacks are called.
ProcessEventHoldingLock(event, d) ==
  /\ eventChan' = Tail(eventChan)
  /\ fdcManager' = d.fdc
  /\ fpcManager' = d.fpc
  /\ procLog' = Append(procLog,
       [ id |-> event.id, t |-> now, key |-> d.key, invoked |-> d.invoked,
         resolved |-> d.resolved, fullPath |-> d.fullPath, isDir |-> d.isDir,
         eventType |-> d.eventType, outcome |-> d.outcome,
         bound |-> DOMAIN listeners ])
  /\ IF d.outcome = "deliver"
     THEN /\ snapshot' = DOMAIN listeners
          /\ listenerMu' = IF DOMAIN listeners = {} THEN "free" ELSE "read"
          /\ current' = [ id |-> event.id, eventType |-> d.eventType,
                          directory |-> d.directory, filename |-> d.filename,
                          isDir |-> d.isDir ]
          /\ procPc' = IF DOMAIN listeners = {} THEN "recv" ELSE "call"
     ELSE UNCHANGED << snapshot, current, procPc, listenerMu >>

\* The receive branch of the select, for the event received and its fate d.
\* The snapshot is taken between RLock and RUnlock (lines 240-245): the lock
\* is free again when the step ends. bound is history: the names bound when
\* the event was handled.
ProcessEvent(event, d) ==
  /\ eventChan' = Tail(eventChan)
  /\ fdcManager' = d.fdc
  /\ fpcManager' = d.fpc
  /\ procLog' = Append(procLog,
       [ id |-> event.id, t |-> now, key |-> d.key, invoked |-> d.invoked,
         resolved |-> d.resolved, fullPath |-> d.fullPath, isDir |-> d.isDir,
         eventType |-> d.eventType, outcome |-> d.outcome,
         bound |-> DOMAIN listeners ])
  /\ IF d.outcome = "deliver"
     THEN /\ snapshot' = DOMAIN listeners
          /\ listenerMu' = "free"
          /\ current' = [ id |-> event.id, eventType |-> d.eventType,
                          directory |-> d.directory, filename |-> d.filename,
                          isDir |-> d.isDir ]
          /\ procPc' = IF DOMAIN listeners = {} THEN "recv" ELSE "call"
     ELSE UNCHANGED << snapshot, current, procPc, listenerMu >>

\* The select of the process loop: the context is done (return), the channel
\* is closed and drained (return), or an event is received and handled up to
\* the snapshot of the listeners.
ProcessRecv ==
  /\ ~crashed
  /\ procPc = "recv"
  /\ \/ /\ ctxDone
        /\ procPc' = "done"
        /\ UNCHANGED << eventChan, snapshot, current, fdcManager, fpcManager, procLog >>
        /\ UNCHANGED listenerMu
     \/ /\ eventChan = << >> /\ chanClosed
        /\ procPc' = "done"
        /\ UNCHANGED << eventChan, snapshot, current, fdcManager, fpcManager, procLog >>
        /\ UNCHANGED listenerMu
     \/ /\ eventChan # << >>
        /\ ProcessEvent(Head(eventChan),
                        processEvent(Head(eventChan), fdcManager, fpcManager, rfd = "open", now))
  /\ UNCHANGED << mainVars, listeners, rebound, ctxDone, now, stopVars, capVars, calls >>

\* History of one call of listener n: the arguments of the call, the id of
\* the event, and whether Stop had already called Close of the plugin n.
Called(n) ==
  [ id |-> current.id, eventType |-> current.eventType, directory |-> current.directory,
    filename |-> current.filename, isDir |-> current.isDir,
    afterClose |-> \E i \in 1..Len(stopLog) : stopLog[i] = n ]

\* The loop over the snapshot: the next listener (in the map's order, which
\* is any order) is called with the current event. A listener that calls
\* wm.Stop() keeps the process task inside Stop until Stop returns.
ProcessCall ==
  /\ ~crashed
  /\ procPc = "call"
  /\ \E n \in snapshot :
       /\ snapshot' = snapshot \ { n }
       /\ calls' = [ calls EXCEPT ![n] = Append(@, Called(n)) ]
       /\ IF Callback(n) = "stop"
          THEN /\ procPc' = "stop"
               /\ stopPc' = [ stopPc EXCEPT !["proc"] = "enter" ]
          ELSE IF Callback(n) = "edit"
          THEN /\ procPc' = "edit"
               /\ UNCHANGED stopPc
          ELSE /\ procPc' = IF snapshot = { n } THEN "recv" ELSE "call"
               /\ UNCHANGED stopPc
  /\ UNCHANGED << mainVars, regVars, eventChan, ctxDone, now, capVars >>
  /\ UNCHANGED << ffd, rfd, chanClosed, stopOnce, pluginIdx, stopLog >>
  /\ UNCHANGED << current, fdcManager, fpcManager, procLog >>

\* The names a listener of kind "edit" binds or removes: itself and a plugin.
EditNames == { "editor", "p1" }

\* Inside a callback that calls wm.AddListener or wm.RemoveListener: the call
\* takes the write lock (lines 124 and 130), changes the map and returns; the
\* fan-out loop then goes on.
ProcessEdit ==
  /\ ~crashed
  /\ procPc = "edit"
  /\ listenerMu = "free"
  /\ \E n \in EditNames :
       /\ \/ listeners' = (n :> Callback(n)) @@ listeners
          \/ /\ n \in DOMAIN listeners
             /\ listeners' = [ m \in DOMAIN listeners \ { n } |-> listeners[m] ]
       /\ rebound' = rebound \cup { n }
  /\ procPc' = IF snapshot = {} THEN "recv" ELSE "call"
  /\ UNCHANGED << mainVars, listenerMu, eventChan, ctxDone, now, stopVars, capVars >>
  /\ UNCHANGED << snapshot, current, fdcManager, fpcManager, calls, procLog >>

\* ------------------------------------------------------------------- time

\* The clock is read only where the process task handles a dequeued event
\* and by the sweepers: time passes, as far as the program can tell, while an
\* event waits in the queue.
Tick ==
  /\ ~crashed
  /\ procPc = "recv" /\ eventChan # << >>
  /\ now < MaxTime
  /\ now' = now + 1
  /\ UNCHANGED << mainVars, regVars, eventChan, ctxDone, stopVars, capVars, procVars >>

\* The caches' sweeper goroutines delete the entries that have expired.
Sweep ==
  /\ ~crashed
  /\ \/ LruSweep(fdcManager, now) # fdcManager
     \/ LruSweep(fpcManager, now) # fpcManager
  /\ fdcManager' = LruSweep(fdcManager, now)
  /\ fpcManager' = LruSweep(fpcManager, now)
  /\ UNCHANGED << mainVars, regVars, eventChan, ctxDone, now, stopVars, capVars >>
  /\ UNCHANGED << procPc, snapshot, current, calls, procLog >>

\* ------------------------------------------------------- the kernel's feed

\* The sequences over S of length 0..n.
RECURSIVE SeqsUpTo(_, _)
SeqsUpTo(S, n) ==
  IF n = 0 THEN { << >> }
  ELSE LET shorter == SeqsUpTo(S, n - 1)
       IN shorter \cup { Append(q, x) : q \in { q \in shorter : Len(q) = n - 1 }, x \in S }

Info(body, name) == InfoPayload(FAN_EVENT_INFO_TYPE_DFID_NAME, HandleType, body, name)

\* Records of varying sizes: with a handle and a name (47 and 50 bytes) and
\* with no info payload (24 bytes).
RecCreate == FullRecord(FANOTIFY_METADATA_VERSION, FAN_CREATE, Info(<< 1 >>, << 120 >>))
RecCloseWrite ==
  FullRecord(FANOTIFY_METADATA_VERSION, FAN_CLOSE_WRITE, Info(<< 1, 2 >>, << 120, 121, 122 >>))
RecDeleteDir == FullRecord(FANOTIFY_METADATA_VERSION, FAN_DELETE \cup FAN_ONDIR, << >>)
\* The directory /a/x created: the same handle and name as RecCreate, with
\* the ON_DIR bit.
RecCreateDir ==
  FullRecord(FANOTIFY_METADATA_VERSION, FAN_CREATE \cup FAN_ONDIR, Info(<< 1 >>, << 120 >>))
\* A record of another metadata version, one with the overflow bit, one that
\* declares event_len 0, and one that declares an event_len (8) below the
\* size of the metadata header.
RecOldVersion == FullRecord(FANOTIFY_METADATA_VERSION - 1, FAN_MOVED_TO, Info(<< 1 >>, << 120 >>))
RecOverflow == FullRecord(FANOTIFY_METADATA_VERSION, FAN_Q_OVERFLOW, << >>)
RecZeroLen == [ FullRecord(FANOTIFY_METADATA_VERSION, FAN_CREATE, << >>) EXCEPT !.len = 0 ]
RecShortLen == [ FullRecord(FANOTIFY_METADATA_VERSION, FAN_CREATE, << >>) EXCEPT !.len = 8 ]
\* A record the buffer ends inside of: after its metadata header, and inside it.
RecCutInInfo == [ RecCreate EXCEPT !.present = 30 ]
RecCutInHeader == [ RecCloseWrite EXCEPT !.present = 10 ]

WholeRecords ==
  { RecCreate, RecCloseWrite, RecDeleteDir, RecCreateDir, RecOldVersion, RecOverflow,
    RecZeroLen, RecShortLen }
CutRecords == { RecCutInInfo, RecCutInHeader }

\* The read buffers of the parse scenarios: whole records, then possibly a
\* record the buffer cuts.
ParseBuffers ==
  SeqsUpTo(WholeRecords, MaxRecs)
    \cup { Append(b, c) : b \in SeqsUpTo(WholeRecords, MaxRecs), c \in CutRecords }

\* The events of the cache scenarios: /a/x created, /a/x written, /a/y
\* created (same directory handle), /ab/x created and /c created.
EvCreateAX == FullRecord(FANOTIFY_METADATA_VERSION, FAN_CREATE, Info(<< 1 >>, << 120 >>))
EvWriteAX == FullRecord(FANOTIFY_METADATA_VERSION, FAN_CLOSE_WRITE, Info(<< 1 >>, << 120 >>))
EvCreateAY == FullRecord(FANOTIFY_METADATA_VERSION, FAN_CREATE, Info(<< 1 >>, << 121 >>))
EvCreateAbX == FullRecord(FANOTIFY_METADATA_VERSION, FAN_CREATE, Info(<< 2 >>, << 120 >>))
EvCreateC == FullRecord(FANOTIFY_METADATA_VERSION, FAN_CREATE, Info(<< 3 >>, << 99 >>))

CacheEvents == { EvCreateAX, EvWriteAX, EvCreateAY, EvCreateAbX, EvCreateC }
CacheBuffers == SeqsUpTo(CacheEvents, MaxEvents) \ { << >> }

\* ------------------------------------------------------------------- Init

\* The state once Initialize has returned: both descriptors open, the caches
\* and the channel empty, nothing registered.
Initialize ==
  /\ ffd = "open" /\ rfd = "open"
  /\ fdcManager = << >> /\ fpcManager = << >>
  /\ eventChan = << >> /\ chanClosed = FALSE
  /\ plugins = << >>
  /\ rebound = {}
  /\ listenerMu = "free"
  /\ stopOnce = "idle"
  /\ stopPc = [ c \in Callers |-> "none" ]
  /\ pluginIdx = 1
  /\ ctxDone = FALSE
  /\ sigPc = "wait" /\ extPc = "idle"
  /\ data = << >>
  /\ snapshot = {}
  /\ current = [ id |-> 0 ]
  /\ now = 0
  /\ stopLog = << >>
  /\ calls = [ n \in ListenerNames |-> << >> ]
  /\ nextId = 0
  /\ curBuf = << >> /\ emitted = << >> /\ parsed = FALSE
  /\ procLog = << >>

\* The whole program from cmd.Initialize on: the loader registers plugins,
\* main starts the pipeline. A listener that calls wm.Stop() may have been
\* added.
Init ==
  /\ Initialize
  /\ mainPc = "load"
  /\ capPc = "off" /\ procPc = "off"
  /\ listeners \in { << >>, ("stopper" :> Callback("stopper")) }
  /\ kernel = << << EvCreateAX, EvCreateAY, EvCreateC >> >>

\* The running pipeline (main in wg.Wait), about to read one buffer.
Running(buffers) ==
  /\ Initialize
  /\ mainPc = "wait"
  /\ capPc = "loop" /\ procPc = "recv"
  /\ listeners = ("logging" :> Callback("logging"))
  /\ \E b \in buffers : kernel = << b >>

\* The events of the fan-out scenarios.
FanBuffers == SeqsUpTo({ EvCreateAX, EvCreateAY, EvCreateAbX }, MaxEvents) \ { << >> }

\* The running pipeline with a listener that changes the registry from
\* inside its callback, beside the logging listener.
EditBuffers == SeqsUpTo({ EvCreateAX, EvCreateAY }, MaxEvents) \ { << >> }
InitEdit ==
  /\ Initialize
  /\ mainPc = "wait"
  /\ capPc = "loop" /\ procPc = "recv"
  /\ listeners = ("logging" :> Callback("logging")) @@ ("editor" :> Callback("editor"))
  /\ \E b \in EditBuffers : kernel = << b >>

InitParse == Running(ParseBuffers)
InitFan == Running(FanBuffers)
InitCache == Running(CacheBuffers)

\* The masks of the kind scenarios: every combination of the five named
\* bits with bits that have no name (the lowest, one in the middle, the
\* highest of the 64), each in a one-record buffer for the watched /a/x.
NamedBits == FAN_CREATE \cup FAN_DELETE \cup FAN_DELETE_SELF \cup FAN_CLOSE_WRITE \cup FAN_MOVED_TO
OtherBits == { 0, 21, 63 }
MaskInputs == { a \cup b : a \in SUBSET NamedBits, b \in SUBSET OtherBits }
MaskBuffers ==
  { << FullRecord(FANOTIFY_METADATA_VERSION, m, Info(<< 1 >>, << 120 >>)) >> : m \in MaskInputs }

InitMask == Running(MaskBuffers)

\* ------------------------------------------------------------------- Next

Next ==
  \/ \E p \in PluginNames : RegisterPlugin(p)
  \/ Watch
  \/ SignalHandler
  \/ ExternalStop
  \/ MainWait
  \/ \E c \in Callers : Stop(c)
  \/ CaptureRead
  \/ CaptureParse
  \/ CaptureSend
  \/ ProcessRecv
  \/ ProcessCall

NextParse ==
  \/ CaptureRead
  \/ CaptureParse
  \/ CaptureSend
  \/ ProcessRecv
  \/ ProcessCall

NextCache ==
  \/ CaptureRead
  \/ CaptureParse
  \/ CaptureSend
  \/ ProcessRecv
  \/ ProcessCall
  \/ Tick
  \/ Sweep

\* The pipeline while other goroutines add and remove listeners.
NextFan ==
  \/ CaptureRead
  \/ CaptureParse
  \/ CaptureSend
  \/ ProcessRecv
  \/ ProcessCall
  \/ \E n \in { "logging", "p1" } : AddListener(n)
  \/ \E n \in { "logging", "p1" } : RemoveListener(n)

\* The pipeline while a callback, and another goroutine, change the registry.
NextEdit ==
  \/ CaptureRead
  \/ CaptureParse
  \/ CaptureSend
  \/ ProcessRecv
  \/ ProcessCall
  \/ ProcessEdit
  \/ AddListener("p1")
  \/ RemoveListener("p1")

Spec == Init /\ [][Next]_vars
SpecEdit == InitEdit /\ [][NextEdit]_vars
SpecFan == InitFan /\ [][NextFan]_vars
SpecParse == InitParse /\ [][NextParse]_vars
SpecCache == InitCache /\ [][NextCache]_vars
SpecMask == InitMask /\ [][NextParse]_vars

\* The process task can take its receive step: it is at the select and one
\* of the select's cases is ready.
CanReceive ==
  /\ ~crashed
  /\ procPc = "recv"
  /\ ctxDone \/ chanClosed \/ eventChan # << >>

\* The Go scheduler runs every goroutine that can take a step. The parse step
\* is enabled exactly when the capture task is at "parse" and it always
\* leaves "parse"; the receive step is enabled exactly when CanReceive: their
\* weak fairness is written out with these conditions.
Fairness ==
  /\ WF_vars(Watch)
  /\ WF_vars(MainWait)
  /\ \A c \in Callers : WF_vars(Stop(c))
  /\ WF_vars(CaptureRead)
  /\ WF_vars(CaptureSend)
  /\ WF_vars(ProcessCall)
  /\ []<>(capPc # "parse")
  /\ []<>(~CanReceive) \/ []<><<ProcessRecv>>_vars

FairSpec == Init /\ [][Next]_vars /\ Fairness

\* ============================================================== properties

Count(q, x) == Cardinality({ i \in 1..Len(q) : q[i] = x })
IsPrefix(p, q) == Len(p) <= Len(q) /\ SubSeq(q, 1, Len(p)) = p

\* ---------------------------------------------------------------- shutdown

StopInvoked == stopOnce # "idle" \/ \E c \in Callers : stopPc[c] # "none"

\* C1 (shutdown liveness): once Stop has been invoked, by any caller and
\* with or without a cancellation before it, the capture task and the
\* process task both eventually return.
C1_ShutdownLiveness == StopInvoked ~> (capPc = "done" /\ procPc = "done")

StopSteps == { "closeFfd", "closeChan", "closeRfd" }

StopClosedOnce ==
  /\ \A x \in StopSteps \cup PluginNames : Count(stopLog, x) <= 1
  /\ stopOnce = "idle" =>
       ffd = "open" /\ rfd = "open" /\ ~chanClosed /\ stopLog = << >>
  /\ stopOnce = "done" =>
       /\ ffd = "closed" /\ rfd = "closed" /\ chanClosed
       /\ \A x \in StopSteps : Count(stopLog, x) = 1
       /\ \A i \in 1..Len(plugins) : Count(stopLog, plugins[i]) = 1

\* C2 (Stop is idempotent): however many callers call Stop, in sequence or
\* concurrently, each descriptor and the queue are closed at most once and
\* each plugin's Close is called at most once, exactly once when the first
\* call has returned; both descriptors are open before the first call; and
\* once the first call has returned no step changes what Stop changes.
C2_StopIdempotent ==
  /\ []StopClosedOnce
  /\ [][stopOnce = "done" =>
          UNCHANGED << ffd, rfd, chanClosed, stopOnce, pluginIdx, stopLog >>]_vars

\* A second and a third caller have returned from Stop, with two plugins.
C2_Witness ==
  /\ stopOnce = "done" /\ Len(plugins) = 2
  /\ sigPc = "done" /\ extPc = "done" /\ mainPc = "exit"

\* C3 (shutdown ordering): what Stop has closed so far is a prefix of: the
\* notification descriptor, the queue, the root descriptor, the plugins in
\* registration order; the queue is never closed while the notification
\* descriptor is open.
C3_ShutdownOrder ==
  /\ IsPrefix(stopLog, << "closeFfd", "closeChan", "closeRfd" >> \o plugins)
  /\ chanClosed => ffd = "closed"
  /\ rfd = "closed" => chanClosed

\* Stop has run to its end with two plugins registered.
C3_Witness == stopOnce = "done" /\ Len(stopLog) = 5

\* ------------------------------------------------------------------ parsing

WellFormed(r) ==
  /\ r.ver = FANOTIFY_METADATA_VERSION
  /\ r.mask \cap FAN_Q_OVERFLOW = {}
  /\ r.len = EventMetadataLen + Len(r.info)
  /\ r.present = r.len

MasksMatch == \A i \in 1..Len(emitted) : i <= Len(curBuf) /\ emitted[i].Mask = curBuf[i].mask

\* C7 (completeness of parse): from a buffer of N well-formed records the
\* capture stage enqueues one event per record, in record order, each with
\* its record's mask: never more, and exactly N once the parse loop has
\* finished the buffer.
C7_ParseComplete ==
  (\A i \in 1..Len(curBuf) : WellFormed(curBuf[i])) =>
    /\ capPc # "panic"
    /\ MasksMatch
    /\ nextId = Len(emitted)
    /\ parsed => Len(emitted) = Len(curBuf)

\* The parse loop has finished a buffer of two well-formed records of
\* different sizes.
C7_Witness ==
  /\ parsed /\ Len(curBuf) = 2 /\ Len(emitted) = 2
  /\ WellFormed(curBuf[1]) /\ WellFormed(curBuf[2])
  /\ curBuf[1].len # curBuf[2].len

CutLast(recs) ==
  /\ Len(recs) >= 1
  /\ recs[Len(recs)].present < recs[Len(recs)].len
  /\ \A i \in 1..(Len(recs) - 1) : WellFormed(recs[i])

\* C8 (safety under truncation): when the last record of the buffer declares
\* more bytes than remain, the capture stage enqueues exactly the events of
\* the well-formed records before it, nothing for the truncated one, does not
\* fault, and is back at the read.
C8_Truncation ==
  CutLast(curBuf) =>
    /\ capPc # "panic"
    /\ MasksMatch
    /\ Len(emitted) <= Len(curBuf) - 1
    /\ parsed => Len(emitted) = Len(curBuf) - 1 /\ capPc \in { "loop", "done" }

\* The parse loop has stopped at a record cut after its metadata header,
\* with two well-formed records before it.
C8_Witness ==
  /\ parsed /\ CutLast(curBuf) /\ Len(curBuf) = 3 /\ Len(emitted) = 2
  /\ curBuf[3].present >= EventMetadataLen

Mismatched(r) ==
  /\ r.ver # FANOTIFY_METADATA_VERSION
  /\ r.len = EventMetadataLen + Len(r.info)
  /\ r.present = r.len

NotMismatched(r) == ~Mismatched(r)

ParseWithoutMismatched == ParseAll(BufferBytes(SelectSeq(curBuf, NotMismatched)))

\* C10 (version gating): the events enqueued from a buffer are those the
\* parse loop offers for the same buffer with the records of another
\* metadata version taken out: such a record yields no event and the
\* records after it are parsed as if it were absent.
C10_VersionGating ==
  /\ IsPrefix(emitted, ParseWithoutMismatched.events)
  /\ parsed => emitted = ParseWithoutMismatched.events /\ ~ParseWithoutMismatched.panic
  /\ capPc = "panic" => ParseWithoutMismatched.panic

\* A buffer that starts with a record of another version has been parsed to
\* its end and the record after it enqueued.
C10_Witness ==
  /\ parsed /\ Len(curBuf) >= 2 /\ Mismatched(curBuf[1]) /\ WellFormed(curBuf[2])
  /\ Len(emitted) >= 1

\* ------------------------------------------------------------------- caches

\* A dequeued event that resolved, is no directory event and passed the
\* prefix filter.
Passing(e) == e.outcome \in { "deliver", "duplicate" }

Pairs == { p \in (1..Len(procLog)) \X (1..Len(procLog)) : p[1] < p[2] }

SamePath(i, j) == procLog[i].fullPath = procLog[j].fullPath

OtherPathsDelivered(i, j) ==
  { procLog[k].fullPath : k \in { k \in (i + 1)..(j - 1) : procLog[k].outcome = "deliver" } }
    \ { procLog[i].fullPath }

ComponentPrefix(P, Q) ==
  /\ HasPrefix(Q, P)
  /\ Len(Q) = Len(P) \/ P[Len(P)] = Slash \/ Q[Len(P) + 1] = Slash

\* C5 (prefix filter matching): a path under a configured prefix at a
\* component boundary is matched; a path that begins with a configured prefix
\* only as a string, and is under no configured prefix at a component
\* boundary, is not matched, so no listener is called for it.
C5_PrefixFilter ==
  \A i \in 1..Len(procLog) :
    (procLog[i].fullPath # << >> /\ ~procLog[i].isDir) =>
      /\ (\E P \in filter : ComponentPrefix(P, procLog[i].fullPath))
           => Passing(procLog[i])
      /\ ( /\ \E P \in filter : HasPrefix(procLog[i].fullPath, P)
           /\ ~\E P \in filter : ComponentPrefix(P, procLog[i].fullPath) )
           => procLog[i].outcome = "unmatched"

SameKey(i, j) == procLog[i].key = procLog[j].key

\* C9 (handle cache round-trip), as claimed: after an event whose handle
\* body the resolver resolved, an event with the same handle body processed
\* within the handle-cache TTL of it causes no second resolver invocation
\* and uses the cached directory, whatever events with other handles are
\* processed in between.
C9_HandleCache ==
  \A p \in Pairs :
    ( /\ procLog[p[1]].invoked /\ procLog[p[1]].resolved
      /\ SameKey(p[1], p[2])
      /\ procLog[p[2]].t - procLog[p[1]].t <= FdTtl )
    => procLog[p[2]].resolved /\ ~procLog[p[2]].invoked

OtherKeysResolved(i, j) ==
  { procLog[k].key : k \in { k \in (i + 1)..(j - 1) : procLog[k].resolved } }
    \ { procLog[i].key }

\* C9 (handle cache round-trip), amended: after an event whose handle body
\* the resolver resolved, an event with the same handle body processed
\* within the handle-cache TTL of it resolves from the cache, with no
\* resolver invocation, as long as events with fewer than cache.fd-size
\* other handle bodies were resolved in between.
C9_HandleCacheBounded ==
  \A p \in Pairs :
    ( /\ procLog[p[1]].invoked /\ procLog[p[1]].resolved
      /\ SameKey(p[1], p[2])
      /\ procLog[p[2]].t - procLog[p[1]].t <= FdTtl
      /\ Cardinality(OtherKeysResolved(p[1], p[2])) < FdSize )
    => procLog[p[2]].resolved /\ ~procLog[p[2]].invoked

\* The resolver resolved a handle body, and a later event for another file
\* of the same directory, a tick later, was resolved from the cache.
C9_Witness ==
  /\ Len(procLog) >= 2
  /\ procLog[1].invoked /\ procLog[1].resolved
  /\ procLog[2].resolved /\ ~procLog[2].invoked
  /\ SameKey(1, 2) /\ ~SamePath(1, 2)
  /\ procLog[2].t > procLog[1].t

\* ------------------------------------------------------------------ fan-out

IsDelivered(e) == e.outcome = "deliver"

DeliveredIds == [ i \in 1..Len(SelectSeq(procLog, IsDelivered)) |->
                    SelectSeq(procLog, IsDelivered)[i].id ]

CallIds(n) == [ i \in 1..Len(calls[n]) |-> calls[n][i].id ]

\* The delivered events a listener of the current snapshot is still to be
\* called with: the current one, while the fan-out has not reached it.
Awaiting(n) == procPc \in { "call", "stop" } /\ n \in snapshot

\* C6 (listener ordering): events are dequeued in the order they were
\* enqueued, and a listener bound since the start has been called with
\* exactly the delivered events, in dequeue order, each once (the one being
\* fanned out excepted until its turn).
C6_ListenerOrder ==
  /\ \A i \in 1..Len(procLog) : procLog[i].id = i
  /\ \A n \in DOMAIN listeners \ rebound :
       CallIds(n) = IF Awaiting(n)
                    THEN SubSeq(DeliveredIds, 1, Len(DeliveredIds) - 1)
                    ELSE DeliveredIds

\* The logging listener, never rebound, has been called for the first and
\* the third event, the second having been dropped, while another listener
\* was added.
C6_Witness ==
  /\ "logging" \in DOMAIN listeners \ rebound
  /\ "p1" \in rebound
  /\ CallIds("logging") = << 1, 3 >>
  /\ Len(procLog) = 3

\* ------------------------------------------------------------------ overflow

NoOverflowBit(r) == r.mask \cap FAN_Q_OVERFLOW = {}

\* A record of the expected version, wholly in the buffer, with its real size.
Whole(r) ==
  /\ r.ver = FANOTIFY_METADATA_VERSION
  /\ r.len = EventMetadataLen + Len(r.info)
  /\ r.present = r.len

MasksOf(q) == [ i \in 1..Len(q) |-> q[i].mask ]
EventMasks(q) == [ i \in 1..Len(q) |-> q[i].Mask ]

\* C11 (overflow ignore): no event with the overflow bit is ever queued and
\* no listener is called more often than events were queued; in a buffer of
\* whole records, overflow records among them, the capture task does not
\* fault and stays in the parse loop until the buffer is finished, the events
\* queued are those of the records without the overflow bit, in order, and
\* the process task handles exactly these.
C11_OverflowIgnored ==
  /\ \A i \in 1..Len(eventChan) : eventChan[i].Mask \cap FAN_Q_OVERFLOW = {}
  /\ \A i \in 1..Len(emitted) : emitted[i].Mask \cap FAN_Q_OVERFLOW = {}
  /\ \A n \in ListenerNames : Len(calls[n]) <= Len(emitted)
  /\ (\A i \in 1..Len(curBuf) : Whole(curBuf[i])) =>
       /\ capPc # "panic"
       /\ (curBuf # << >> /\ ~parsed) => capPc \in { "parse", "send" }
       /\ IsPrefix(EventMasks(emitted), MasksOf(SelectSeq(curBuf, NoOverflowBit)))
       /\ parsed => Len(emitted) = Len(SelectSeq(curBuf, NoOverflowBit))
       /\ (parsed /\ eventChan = << >>) =>
            Len(procLog) = Len(SelectSeq(curBuf, NoOverflowBit))

\* An overflow record was followed by a CREATE record for a watched file; the
\* buffer is finished and the logging listener was called once, for the
\* CREATE.
C11_Witness ==
  /\ curBuf = << RecOverflow, RecCreate >>
  /\ parsed /\ capPc = "loop"
  /\ Len(calls["logging"]) = 1 /\ calls["logging"][1].eventType = "CREATE"

\* ------------------------------------------------------------ directories

\* C12 (directory events are never delivered): the is-directory flag of a
\* queued event is the ON_DIR bit of its mask; an event with the flag is
\* never delivered, also when it resolves under a watched prefix with the
\* path cache empty; and every call of a listener is for a dequeued event
\* without the flag.
C12_DirectoryDropped ==
  /\ \A i \in 1..Len(eventChan) :
       eventChan[i].IsDir <=> (eventChan[i].Mask \cap FAN_ONDIR # {})
  /\ \A i \in 1..Len(procLog) : procLog[i].isDir => procLog[i].outcome # "deliver"
  /\ \A n \in ListenerNames : \A k \in 1..Len(calls[n]) :
       /\ ~calls[n][k].isDir
       /\ \E i \in 1..Len(procLog) :
            procLog[i].id = calls[n][k].id /\ ~procLog[i].isDir

\* The directory /a/x was created, under the watched /a and with the path
\* cache empty, and dropped; the file event for the same path that followed
\* was delivered.
C12_Witness ==
  /\ curBuf = << RecCreateDir, RecCreate >>
  /\ Len(procLog) = 2
  /\ procLog[1].isDir /\ procLog[1].outcome = "directory"
  /\ procLog[1].resolved /\ LongestPrefix(filter, procLog[1].fullPath)
  /\ procLog[2].outcome = "deliver"
  /\ Len(calls["logging"]) = 1 /\ procPc = "recv"

\* ----------------------------------------------------------- runtime errors

\* C13 (runtime errors are absorbed): while the notification descriptor is
\* open and no cancellation was signalled, the capture task has not
\* terminated, whatever the reads returned and whatever records they held.
C13_ErrorsAbsorbed ==
  (ffd = "open" /\ ~ctxDone) => capPc \notin { "done", "panic" }

\* ------------------------------------------------------------- maskToString

\* The five names in the order of the claim, each with its bit.
KindNames ==
  << [ bit |-> 8, name |-> "CREATE" ], [ bit |-> 9, name |-> "DELETE" ],
     [ bit |-> 10, name |-> "DELETE_SELF" ], [ bit |-> 3, name |-> "CLOSE_WRITE" ],
     [ bit |-> 7, name |-> "MOVED_TO" ] >>

RECURSIVE JoinedKinds(_, _, _)
JoinedKinds(mask, i, acc) ==
  IF i > Len(KindNames) THEN acc
  ELSE IF KindNames[i].bit \notin mask THEN JoinedKinds(mask, i + 1, acc)
  ELSE JoinedKinds(mask, i + 1,
                   IF acc = "" THEN KindNames[i].name ELSE acc \o "|" \o KindNames[i].name)

\* The mask as a number, in four 16-bit limbs, and the number in lowercase
\* hexadecimal with no leading zero.
RECURSIVE SumPow2(_)
SumPow2(bits) ==
  IF bits = {} THEN 0
  ELSE (2 ^ (CHOOSE b \in bits : TRUE)) + SumPow2(bits \ { CHOOSE b \in bits : TRUE })

Limb(mask, k) == SumPow2({ b - 16 * k : b \in { b \in mask : b \div 16 = k } })

HexDigit(n) == << "0", "1", "2", "3", "4", "5", "6", "7", "8", "9", "a", "b", "c", "d", "e", "f" >>[n + 1]

RECURSIVE HexOfNat(_)
HexOfNat(n) == IF n < 16 THEN HexDigit(n) ELSE HexOfNat(n \div 16) \o HexDigit(n % 16)

HexPadded(n) ==
  HexDigit(n \div 4096) \o HexDigit((n \div 256) % 16) \o HexDigit((n \div 16) % 16)
    \o HexDigit(n % 16)

RECURSIVE HexLimbs(_, _, _)
HexLimbs(mask, k, leading) ==
  IF k < 0 THEN (IF leading THEN "0" ELSE "")
  ELSE IF leading /\ Limb(mask, k) = 0 THEN HexLimbs(mask, k - 1, TRUE)
  ELSE (IF leading THEN HexOfNat(Limb(mask, k)) ELSE HexPadded(Limb(mask, k)))
         \o HexLimbs(mask, k - 1, FALSE)

KindOf(mask) ==
  IF mask \cap { KindNames[i].bit : i \in 1..Len(KindNames) } = {}
  THEN "0x" \o HexLimbs(mask, 3, TRUE)
  ELSE JoinedKinds(mask, 1, "")

\* C14 (mask-to-kind mapping): the kind computed for a dequeued event, and
\* passed to the listeners, is the names of the set bits among CREATE,
\* DELETE, DELETE_SELF, CLOSE_WRITE, MOVED_TO in that order joined with "|",
\* other bits ignored, or "0x" and the mask in lowercase hexadecimal when none
\* of the five is set; CREATE|MOVED_TO gives "CREATE|MOVED_TO" and 0 gives
\* "0x0".
C14_MaskToKind ==
  /\ \A i \in 1..Len(procLog) :
       /\ procLog[i].eventType = KindOf(curBuf[procLog[i].id].mask)
       /\ curBuf[procLog[i].id].mask = FAN_CREATE \cup FAN_MOVED_TO
            => procLog[i].eventType = "CREATE|MOVED_TO"
       /\ curBuf[procLog[i].id].mask = {} => procLog[i].eventType = "0x0"
  /\ \A k \in 1..Len(calls["logging"]) :
       calls["logging"][k].eventType = KindOf(curBuf[calls["logging"][k].id].mask)

\* The listener was called with the kind of a mask that has three of the
\* named bits and bits without a name.
C14_Witness ==
  /\ Len(calls["logging"]) = 1
  /\ curBuf[1].mask = FAN_MOVED_TO \cup FAN_CREATE \cup FAN_DELETE_SELF \cup { 0, 63 }
  /\ calls["logging"][1].eventType = "CREATE|DELETE_SELF|MOVED_TO"

\* --------------------------------------------------------- malformed records

\* C15 (malformed records never fault the parser): whatever the rest of the
\* read buffer holds, the next iteration of the parse loop does not fault,
\* and the capture task, with the queue open, is never in a fault.
C15_ParserNeverFaults ==
  /\ capPc = "parse" => ParseRecord(data).kind # "panic"
  /\ ~chanClosed => capPc # "panic"

\* ---------------------------------------------------- full queue and cancel

OfferingOnFullQueue == capPc = "send" /\ Len(eventChan) = ChanCap /\ ctxDone

\* C16 (capture does not hang on a full queue after cancellation): whenever
\* the capture task is offering an event, the queue is full and the
\* cancellation signal has arrived, the capture task eventually returns.
C16_FullQueueCancel == OfferingOnFullQueue ~> (capPc = "done")

\* ------------------------------------------------------- path-cache frame

\* The entries of a cache, whatever their order in the eviction list.
Entries(c) == { c[i] : i \in 1..Len(c) }

\* The step is the process task handling a dequeued event.
Processed == Len(procLog') = Len(procLog) + 1

\* C17 (path-cache frame condition): a step in which the path cache gains an
\* entry, or an entry's kind or expiry changes, is the processing of an event
\* that is delivered to the listeners; the processing of an event that is
\* dropped leaves the entries of the path cache as they were.
C17_PathCacheFrame ==
  [][ /\ (Entries(fpcManager') \ Entries(fpcManager) # {})
         => (Processed /\ procLog'[Len(procLog')].outcome = "deliver")
      /\ (Processed /\ procLog'[Len(procLog')].outcome # "deliver")
         => Entries(fpcManager') = Entries(fpcManager) ]_vars

\* /a/x was created and delivered, then written within the TTL and dropped
\* as a duplicate: the path cache still holds CREATE for /a/x.
C17_Witness ==
  /\ Len(procLog) = 2
  /\ procLog[1].outcome = "deliver" /\ procLog[1].eventType = "CREATE"
  /\ procLog[2].outcome = "duplicate" /\ procLog[2].eventType = "CLOSE_WRITE"
  /\ Len(fpcManager) = 1
  /\ fpcManager[1].key = procLog[2].fullPath /\ fpcManager[1].value = "CREATE"

\* ------------------------------------------------- registry and callbacks

\* The listeners called so far with the event of this id.
CalledFor(id) ==
  { n \in ListenerNames : \E k \in 1..Len(calls[n]) : calls[n][k].id = id }

TimesCalled(n, id) == Cardinality({ k \in 1..Len(calls[n]) : calls[n][k].id = id })

\* C18 (the registry is not locked during callbacks): while callbacks run,
\* the registry lock is free, so that in a live process a callback inside
\* AddListener or RemoveListener, and another goroutine calling AddListener,
\* can proceed;
\* an event that was delivered is passed, once each, to exactly the listeners
\* bound when it was handled (those not yet called being the rest of the
\* snapshot), whatever changes of the registry were made during its fan-out;
\* and an event that was dropped is passed to none.
C18_RegistryUnlocked ==
  /\ procPc \in { "call", "edit", "stop" } =>
       /\ listenerMu = "free"
       /\ ~crashed => ENABLED AddListener("p1")
  /\ (procPc = "edit" /\ ~crashed) => ENABLED ProcessEdit
  /\ \A i \in 1..Len(procLog) :
       /\ \A n \in ListenerNames : TimesCalled(n, procLog[i].id) <= 1
       /\ IF procLog[i].outcome # "deliver" THEN CalledFor(procLog[i].id) = {}
          ELSE IF current.id = procLog[i].id
          THEN /\ CalledFor(procLog[i].id) \cup snapshot = procLog[i].bound
               /\ CalledFor(procLog[i].id) \cap snapshot = {}
          ELSE CalledFor(procLog[i].id) = procLog[i].bound

\* The first event went to the logging and the editing listener; the editing
\* listener's callback bound p1 during that fan-out; p1 was not called for the
\* first event and was called for the second.
C18_Witness ==
  /\ Len(procLog) = 2 /\ procPc = "recv"
  /\ procLog[1].bound = { "logging", "editor" }
  /\ CalledFor(procLog[1].id) = { "logging", "editor" }
  /\ procLog[2].bound = { "logging", "editor", "p1" }
  /\ CalledFor(procLog[2].id) = { "logging", "editor", "p1" }

\* ------------------------------------------------------ the closed queue

\* C19 (no send on a closed queue): the capture task never executes a send
\* on the event queue once Stop has closed it (such a send is a fault).
C19_NoSendOnClosedQueue == chanClosed => capPc # "panic"

\* C20 (no plugin callback after Close): no call of a plugin's Handle was
\* made after Stop had called that plugin's Close.
C20_NoCallAfterClose ==
  \A p \in PluginNames : \A k \in 1..Len(calls[p]) : ~calls[p][k].afterClose

====
